---- MODULE Spec2Model ----
(***************************************************************************)
(* A model of train.ipynb: the Params class, RecommenderModule (its        *)
(* constructor, training_step and eval_step) and the driver cell that      *)
(* builds the dataset split, the model, the module, the optimizer and the  *)
(* scheduler.                                                              *)
(*                                                                         *)
(* The recommender network, the dataset and the metric functions are       *)
(* imported by the notebook (models, dataset, metrics): the network is a   *)
(* table of scores, one per (user, item) pair, and the metric functions    *)
(* are represented by the arguments eval_step passes to them.              *)
(*                                                                         *)
(* Tensors are 0-indexed in the notebook and sequences are 1-indexed here: *)
(* position p of a tensor t is t[p + 1].                                   *)
(***************************************************************************)
EXTENDS Integers, Sequences, FiniteSets

\* ---------------------------------------------------------------- bounds
\* User ids are 0..MaxUser, item ids 1..MaxItem, a batch has 2..MaxBatch
\* rows, and a run of SpecSeq makes up to MaxCalls calls of the module.
MaxUser == 1
MaxItem == 2
MaxBatch == 2
MaxCalls == 2

\* Params.num_epochs
num_epochs == 100

Users == 0..MaxUser
Items == 1..MaxItem
\* Ratings and predictions are quantised to the two ends of [0, 1].
Ratings == {0, 1}
Scores == {0, 1}

RatingFormat == {"RATING", "BINARY"}
\* Only MATRIX_FACTORIZATION is named by the notebook; OTHER stands for
\* every other member of models.ModelArchitecture.
ModelArchitecture == {"MATRIX_FACTORIZATION", "OTHER"}

\* A batch row: features[:, 0], features[:, 1] and the rating.
Row == [user : Users, item : Items, rating : Ratings]
Batches == UNION {[1..n -> Row] : n \in 2..MaxBatch}

\* A row of an np.empty array that has not been written or read yet: it
\* holds no defined values.
Uninit == <<>>
\* What an uninitialised float64 cell can turn out to hold: zero, or a
\* non-zero value that is neither a batch position nor an item id.
Garbage == {0, -1}
\* A local of a frame that is not active.
Null == "null"
\* roc_auc before any assignment to it has run (a percentage once bound).
Unbound == -1

VARIABLES
    pc,                 \* position of the driver cell
    rating_format,      \* Params.rating_format
    model_architecture, \* Params.model_architecture
    use_wandb,          \* the driver's use_wandb flag
    scores,             \* the recommender: (user, item) -> prediction
    loss_fn,            \* self.loss_fn
    self_use_wandb,     \* self.use_wandb
    T_max,              \* the scheduler's T_max
    frame,              \* the active call of the module, or "idle"
    batch,              \* the call's batch
    k,                  \* eval_step's k
    i,                  \* eval_step's loop index: rows processed so far
    loss,               \* training_step's loss / eval_step's eval_loss
    user_item_ratings,  \* eval_step's predicted top-k matrix
    true_item_ratings,  \* eval_step's ground-truth top-k matrix
    assigned_rows,      \* rows of user_item_ratings written by the loop
    roc_auc,            \* eval_step's roc_auc local
    roc_fresh,          \* roc_auc was assigned in the last iteration
    user_rating_preds,  \* the predictions handed to ndcg_score / roc_auc
    user_rating_ref,    \* the reference handed to ndcg_score / roc_auc
    display_calls,      \* calls of dataset.display_recommendation_output
    train_calls,        \* training_step calls so far
    eval_calls,         \* eval_step calls so far
    stdout,             \* the metrics records printed so far
    wandb_log           \* the wandb.log calls so far

config == <<rating_format, model_architecture, use_wandb, scores>>
module == <<loss_fn, self_use_wandb>>
locals == <<batch, k, i, loss, user_item_ratings, true_item_ratings,
            assigned_rows, roc_auc, roc_fresh, user_rating_preds,
            user_rating_ref, display_calls>>
outputs == <<stdout, wandb_log>>
vars == <<pc, config, module, T_max, frame, locals, train_calls, eval_calls,
          outputs>>

\* ------------------------------------------------------------- helpers
RECURSIVE SumSeq(_)
SumSeq(s) == IF s = <<>> THEN 0 ELSE Head(s) + SumSeq(Tail(s))

BatchUsers(b) == [j \in 1..Len(b) |-> b[j].user]
BatchItems(b) == [j \in 1..Len(b) |-> b[j].item]
BatchRatings(b) == [j \in 1..Len(b) |-> b[j].rating]

Range(s) == {s[j] : j \in 1..Len(s)}

\* self.recommender(batch).squeeze(): one prediction per batch row.
Recommender(b) == [j \in 1..Len(b) |-> scores[<<b[j].user, b[j].item>>]]

\* torch.nn.MSELoss: the mean of the squared differences, as num / den.
MSELoss(preds, target) ==
    [num |-> SumSeq([j \in 1..Len(preds) |->
                        (preds[j] - target[j]) * (preds[j] - target[j])]),
     den |-> Len(preds)]

\* torch.nn.BCELoss on predictions that are 0 or 1: log(0) is clamped to
\* -100, so an element is 100 * (1 - t) for p = 1 and 100 * t for p = 0.
BCELoss(preds, target) ==
    [num |-> SumSeq([j \in 1..Len(preds) |->
                        IF preds[j] = 1 THEN 100 * (1 - target[j])
                                        ELSE 100 * target[j]]),
     den |-> Len(preds)]

ApplyLoss(fn, preds, target) ==
    IF fn = "BCELoss" THEN BCELoss(preds, target) ELSE MSELoss(preds, target)

\* The two loss functions chosen the wrong way round.
SelectLossSwapped(rf, arch) ==
    IF rf = "BINARY" /\ arch # "MATRIX_FACTORIZATION" THEN "MSELoss"
                                                      ELSE "BCELoss"

\* RecommenderModule.__init__: the choice of the loss function.
SelectLoss(rf, arch) ==
    IF rf = "BINARY" /\ arch # "MATRIX_FACTORIZATION" THEN "BCELoss"
                                                      ELSE "MSELoss"

\* wandb.log called whatever the flag is.
WandbLogAlways(flag, log, entry) == Append(log, entry)

\* if self.use_wandb: wandb.log(entry)
WandbLog(flag, log, entry) == IF flag THEN Append(log, entry) ELSE log

\* torch.topk(v, k).indices over the positions rem: the positions of the kk
\* largest values, largest first; the order among equal values is not
\* specified by torch, so every admissible answer is in the set.
RECURSIVE TopKFrom(_, _, _)
TopKFrom(v, kk, rem) ==
    IF kk = 0 THEN {<<>>}
    ELSE LET best == {p \in rem : \A q \in rem : v[q + 1] <= v[p + 1]}
         IN UNION {{<<p>> \o t : t \in TopKFrom(v, kk - 1, rem \ {p})} : p \in best}

\* torch.topk with largest=False: the kk smallest values, smallest first.
TopKSmallest(v, kk) ==
    LET RECURSIVE Pick(_, _)
        Pick(n, left) ==
            IF n = 0 THEN {<<>>}
            ELSE LET worst == {p \in left : \A q \in left : v[p + 1] <= v[q + 1]}
                 IN UNION {{<<p>> \o t : t \in Pick(n - 1, left \ {p})} : p \in worst}
    IN Pick(kk, 0..(Len(v) - 1))

TopK(v, kk) == TopKFrom(v, kk, 0..(Len(v) - 1))

Max(S) == CHOOSE x \in S : \A y \in S : y <= x

\* user_ids = full_like(items, user_id); recommender((stack(user_ids,
\* items), None)): the score of user_id for the item of every batch row.
UserPreds(user_id, b) == [j \in 1..Len(b) |-> scores[<<user_id, b[j].item>>]]

\* np.empty((rows, kk)): rows rows of kk cells each, none of them set.
AllocEmpty(rows, kk) == [r \in 0..(rows - 1) |-> Uninit]

\* The contents a row can show when it is read: a written row shows what was
\* written, a row still as allocated shows whatever the memory held.
RowChoices(row, kk) ==
    IF row = Uninit THEN [1..kk -> Garbage] ELSE {row}

\* The matrices a read of m can see.
ReadMatrix(m, kk) ==
    {f \in [DOMAIN m -> UNION {RowChoices(m[r], kk) : r \in DOMAIN m}] :
        \A r \in DOMAIN m : f[r] \in RowChoices(m[r], kk)}

\* np.array([p for sublist in m for p in sublist])
RECURSIVE FlattenFrom(_, _)
FlattenFrom(m, r) == IF r \notin DOMAIN m THEN <<>> ELSE m[r] \o FlattenFrom(m, r + 1)

Flatten(m) == FlattenFrom(m, 0)

\* a.astype(bool)
AsBool(a) == [j \in 1..Len(a) |-> a[j] # 0]

\* len(np.unique(a))
NumUnique(a) == Cardinality(Range(a))

\* sklearn's roc_auc_score on boolean labels and boolean scores, in percent:
\* the share of (positive, negative) pairs ranked correctly, ties half.
RocAucScore(ref, preds) ==
    LET a == Cardinality({j \in 1..Len(ref) : ref[j] /\ preds[j]})
        b == Cardinality({j \in 1..Len(ref) : ref[j] /\ ~preds[j]})
        c == Cardinality({j \in 1..Len(ref) : ~ref[j] /\ preds[j]})
        d == Cardinality({j \in 1..Len(ref) : ~ref[j] /\ ~preds[j]})
    IN (100 * (2 * a * d + a * c + b * d)) \div (2 * (a + b) * (c + d))

\* The metrics record of one loop iteration. Its ndcg, novelty, coverage
\* and personalization fields are values of the metrics module's functions
\* of user_rating_preds, user_rating_ref and user_item_ratings.
LogDict(eval_loss, roc) == [eval_loss |-> eval_loss, roc_auc |-> roc]

\* list(set(items.tolist()))
UniqueItemCatalog(b) == Range(BatchItems(b))

\* item_popularity: the number of batch rows of each item of the batch.
ItemPopularity(b) ==
    [it \in UniqueItemCatalog(b) |-> Cardinality({j \in 1..Len(b) : b[j].item = it})]

\* ------------------------------------------------------------- the driver
Init ==
    /\ pc = "start"
    /\ rating_format \in RatingFormat
    /\ model_architecture \in ModelArchitecture
    /\ use_wandb \in BOOLEAN
    /\ scores \in [Users \X Items -> Scores]
    /\ loss_fn = Null
    /\ self_use_wandb = Null
    /\ T_max = Null
    /\ frame = "idle"
    /\ batch = Null /\ k = Null /\ i = Null /\ loss = Null
    /\ user_item_ratings = Null /\ true_item_ratings = Null
    /\ assigned_rows = Null /\ roc_auc = Null /\ roc_fresh = Null
    /\ user_rating_preds = Null /\ user_rating_ref = Null
    /\ display_calls = Null
    /\ train_calls = 0
    /\ eval_calls = 0
    /\ stdout = <<>>
    /\ wandb_log = <<>>

\* The dataset, its random split and the two data loaders.
DriverSplit ==
    /\ pc = "start"
    /\ pc' = "split"
    /\ UNCHANGED <<config, module, T_max, frame, locals, train_calls,
                   eval_calls, outputs>>

\* model = model_cls(...).to(device); model.train()
DriverModel ==
    /\ pc = "split"
    /\ pc' = "model"
    /\ UNCHANGED <<config, module, T_max, frame, locals, train_calls,
                   eval_calls, outputs>>

\* module = RecommenderModule(model, use_wandb); wandb.init and wandb.watch
\* when use_wandb (neither is a wandb.log call).
DriverModule ==
    /\ pc = "model"
    /\ pc' = "module"
    /\ loss_fn' = SelectLoss(rating_format, model_architecture)
    /\ self_use_wandb' = use_wandb
    /\ UNCHANGED <<config, T_max, frame, locals, train_calls, eval_calls,
                   outputs>>

\* optimizer = AdamW(...); scheduler = CosineAnnealingLR(optimizer,
\* T_max=Params.num_epochs, ...). The cell ends here.
DriverOptimizer ==
    /\ pc = "module"
    /\ pc' = "done"
    /\ T_max' = num_epochs
    /\ UNCHANGED <<config, module, frame, locals, train_calls, eval_calls,
                   outputs>>

\* ---------------------------------------------------- RecommenderModule
\* training_step(batch), up to its return statement. limit caps the number
\* of calls of a run of the model.
TrainingStep(b, limit) ==
    /\ pc = "done"
    /\ frame = "idle"
    /\ train_calls + eval_calls < limit
    /\ LET preds == Recommender(b)
           l == ApplyLoss(loss_fn, preds, BatchRatings(b))
       IN /\ loss' = l
          /\ wandb_log' = WandbLog(self_use_wandb, wandb_log, [train_loss |-> l])
    /\ frame' = "training_step"
    /\ batch' = b
    /\ train_calls' = train_calls + 1
    /\ UNCHANGED <<pc, config, module, T_max, k, i, user_item_ratings,
                   true_item_ratings, assigned_rows, roc_auc, roc_fresh,
                   user_rating_preds, user_rating_ref, display_calls,
                   eval_calls, stdout>>

\* eval_step(dataset, batch, k), up to its loop. torch.topk needs k <= n.
EvalBegin(b, kk, limit) ==
    /\ pc = "done"
    /\ frame = "idle"
    /\ train_calls + eval_calls < limit
    /\ kk <= Len(b)
    /\ LET max_user_id == Max(Range(BatchUsers(b))) + 1
       IN /\ user_item_ratings' = AllocEmpty(max_user_id, kk)
          /\ true_item_ratings' = AllocEmpty(max_user_id, kk)
    /\ loss' = ApplyLoss(loss_fn, Recommender(b), BatchRatings(b))
    /\ frame' = "eval_step"
    /\ batch' = b
    /\ k' = kk
    /\ i' = 0
    /\ assigned_rows' = {}
    /\ roc_auc' = Unbound
    /\ roc_fresh' = FALSE
    /\ user_rating_preds' = <<>>
    /\ user_rating_ref' = <<>>
    /\ display_calls' = <<>>
    /\ eval_calls' = eval_calls + 1
    /\ UNCHANGED <<pc, config, module, T_max, train_calls, outputs>>

\* One iteration of eval_step's loop over the batch rows. The metrics read
\* the whole of user_item_ratings: what its unwritten rows hold is settled by
\* the first read and stays. true_item_ratings is written and never read.
EvalIter ==
    /\ frame = "eval_step"
    /\ i < Len(batch)
    /\ LET user_id == batch[i + 1].user
       IN \E top_k_preds \in TopK(UserPreds(user_id, batch), k),
             true_top_k \in TopK(BatchRatings(batch), k) :
          \E uir \in ReadMatrix([user_item_ratings EXCEPT ![user_id] = top_k_preds], k) :
            LET preds == Flatten(uir)
                ref == Flatten(uir)
                ref_bool == AsBool(ref)
                preds_bool == AsBool(preds)
                assigned == NumUnique(ref_bool) = 2 /\ NumUnique(preds_bool) = 2
                roc == IF assigned THEN RocAucScore(ref_bool, preds_bool)
                                   ELSE roc_auc
                log_dict == LogDict(loss, roc)
            IN /\ user_item_ratings' = uir
               /\ true_item_ratings' =
                      [true_item_ratings EXCEPT ![user_id] = true_top_k]
               /\ assigned_rows' = assigned_rows \cup {user_id}
               /\ display_calls' =
                      IF i = 0
                      THEN Append(display_calls, <<user_id, top_k_preds, true_top_k>>)
                      ELSE display_calls
               /\ user_rating_preds' = preds
               /\ user_rating_ref' = ref
               /\ roc_auc' = roc
               /\ roc_fresh' = assigned
               /\ IF roc = Unbound
                  THEN \* building log_dict raises UnboundLocalError
                       /\ frame' = "raised"
                       /\ i' = i
                       /\ UNCHANGED outputs
                  ELSE /\ frame' = frame
                       /\ i' = i + 1
                       /\ stdout' = Append(stdout, log_dict)
                       /\ wandb_log' = WandbLog(self_use_wandb, wandb_log, log_dict)
    /\ UNCHANGED <<pc, config, module, T_max, batch, k, loss, train_calls,
                   eval_calls>>

\* The call ends: training_step returns its loss, eval_step's loop is over,
\* or the exception leaves eval_step. The frame's locals are gone.
Return ==
    /\ frame # "idle"
    /\ frame = "eval_step" => i = Len(batch)
    /\ frame' = "idle"
    /\ batch' = Null /\ k' = Null /\ i' = Null /\ loss' = Null
    /\ user_item_ratings' = Null /\ true_item_ratings' = Null
    /\ assigned_rows' = Null /\ roc_auc' = Null /\ roc_fresh' = Null
    /\ user_rating_preds' = Null /\ user_rating_ref' = Null
    /\ display_calls' = Null
    /\ UNCHANGED <<pc, config, module, T_max, train_calls, eval_calls, outputs>>

\* One call of the module, from every configuration and recommender.
Next ==
    \/ DriverSplit
    \/ DriverModel
    \/ DriverModule
    \/ DriverOptimizer
    \/ \E b \in Batches : TrainingStep(b, 1)
    \/ \E b \in Batches : \E kk \in 1..MaxBatch : EvalBegin(b, kk, 1)
    \/ EvalIter
    \/ Return

Spec == Init /\ [][Next]_vars

\* Sequences of up to MaxCalls calls, under the notebook's own Params and
\* two recommenders: one scoring every pair alike, one preferring item 1.
InitSeq ==
    /\ Init
    /\ rating_format = "RATING"
    /\ model_architecture = "MATRIX_FACTORIZATION"
    /\ scores \in {[p \in Users \X Items |-> 0],
                   [p \in Users \X Items |-> IF p[2] = 1 THEN 1 ELSE 0]}

NextSeq ==
    \/ DriverSplit
    \/ DriverModel
    \/ DriverModule
    \/ DriverOptimizer
    \/ \E b \in Batches : TrainingStep(b, MaxCalls)
    \/ \E b \in Batches : \E kk \in 1..MaxBatch : EvalBegin(b, kk, MaxCalls)
    \/ EvalIter
    \/ Return

SpecSeq == InitSeq /\ [][NextSeq]_vars

\* ------------------------------------------------------------ the claims
InEval == frame \in {"eval_step", "raised"}

\* The batch rows whose iteration has written its top-k rows.
RowsDone == IF frame = "raised" THEN i + 1 ELSE i

\* Some iteration of the running eval_step has computed its metrics.
MetricsComputed == InEval /\ RowsDone > 0

Positions == 0..(Len(batch) - 1)

\* The recommender's score of user u for the item at batch position p.
ScoreAt(u, p) == scores[<<u, batch[p + 1].item>>]

\* C1: row user_id of user_item_ratings holds, for every batch row processed,
\* k distinct batch positions in descending order of the score the
\* recommender gives that user for the item at the position, and no position
\* left out scores strictly higher than a recorded one.
C1_TopKRecorded ==
    InEval =>
        /\ assigned_rows = {batch[j].user : j \in 1..RowsDone}
        /\ \A u \in assigned_rows :
              LET row == user_item_ratings[u]
              IN /\ Len(row) = k
                 /\ \A j \in 1..k : row[j] \in Positions
                 /\ \A j1, j2 \in 1..k : j1 # j2 => row[j1] # row[j2]
                 /\ \A j \in 1..(k - 1) : ScoreAt(u, row[j]) >= ScoreAt(u, row[j + 1])
                 /\ \A p \in Positions \ Range(row) :
                       \A j \in 1..k : ScoreAt(u, p) <= ScoreAt(u, row[j])

\* A processed user whose recorded top-1 leaves out a lower-scored position.
C1_Witness ==
    /\ frame = "eval_step"
    /\ i = Len(batch)
    /\ k = 1
    /\ \E u \in assigned_rows :
          \E p \in Positions : ScoreAt(u, p) < ScoreAt(u, user_item_ratings[u][1])

\* C2: once every row of the matrices is written, the reference handed to
\* ndcg_score and roc_auc_score is the flattened ground-truth matrix
\* true_item_ratings.
C2_ReferenceIsGroundTruth ==
    (MetricsComputed /\ assigned_rows = DOMAIN user_item_ratings) =>
        user_rating_ref = Flatten(true_item_ratings)

\* C3: the ground-truth row recorded for a user with at least k rows in the
\* batch holds positions of that user's own rows only.
C3_GroundTruthPerUser ==
    InEval =>
        \A u \in assigned_rows :
            Cardinality({j \in 1..Len(batch) : batch[j].user = u}) >= k =>
                \A j \in 1..k : batch[true_item_ratings[u][j] + 1].user = u

\* C4: every value of a written row of user_item_ratings is an item id of
\* unique_item_catalog and a key of item_popularity.
C4_TopKHoldsItems ==
    MetricsComputed =>
        \A u \in assigned_rows :
            \A j \in 1..k :
                /\ user_item_ratings[u][j] \in UniqueItemCatalog(batch)
                /\ user_item_ratings[u][j] \in DOMAIN ItemPopularity(batch)

\* C5: the module's loss function is binary cross-entropy exactly when the
\* rating format is BINARY and the architecture is not MATRIX_FACTORIZATION,
\* mean squared error otherwise; training_step's returned loss and
\* eval_step's eval_loss are that function of the model's predictions and
\* the batch's ratings.
C5_LossFixedAtConstruction ==
    /\ pc \in {"module", "done"} =>
          /\ (rating_format = "BINARY" /\ model_architecture # "MATRIX_FACTORIZATION")
                 => loss_fn = "BCELoss"
          /\ (rating_format # "BINARY" \/ model_architecture = "MATRIX_FACTORIZATION")
                 => loss_fn = "MSELoss"
    /\ frame # "idle" =>
          \/ /\ loss_fn = "BCELoss"
             /\ loss = BCELoss(Recommender(batch), BatchRatings(batch))
          \/ /\ loss_fn = "MSELoss"
             /\ loss = MSELoss(Recommender(batch), BatchRatings(batch))

\* training_step about to return a cross-entropy loss that differs from the
\* mean squared error of the same batch.
C5_Witness ==
    /\ frame = "training_step"
    /\ loss_fn = "BCELoss"
    /\ loss # MSELoss(Recommender(batch), BatchRatings(batch))

IsTrainEntry(e) == "train_loss" \in DOMAIN e
IsEvalEntry(e) == "eval_loss" \in DOMAIN e

\* C6: with use_wandb false no wandb.log call is made; with it true there
\* is one train_loss call per training_step call and the metrics records
\* logged are exactly the records printed, in order; the loss and the
\* record printed last are what the call computed, whatever use_wandb is.
C6_WandbOnlyWhenEnabled ==
    /\ ~use_wandb => wandb_log = <<>>
    /\ use_wandb =>
          /\ Len(SelectSeq(wandb_log, IsTrainEntry)) = train_calls
          /\ SelectSeq(wandb_log, IsEvalEntry) = stdout
    /\ (frame = "training_step" /\ use_wandb) =>
          wandb_log[Len(wandb_log)] = [train_loss |-> loss]
    /\ (frame = "eval_step" /\ i > 0) =>
          stdout[Len(stdout)] = LogDict(loss, roc_auc)

\* Logging enabled, after a training_step call and a printed metrics record.
C6_Witness ==
    /\ use_wandb
    /\ train_calls = 1
    /\ Len(stdout) >= 1
    /\ Len(wandb_log) = Len(stdout) + 1

\* C7: when the driver cell has finished it has called training_step for
\* Params.num_epochs epochs (at least one batch per epoch).
C7_DriverRunsEpochs == pc = "done" => train_calls >= num_epochs

\* C8: no iteration of eval_step's loop ends in an unbound-variable error,
\* and every iteration that built its record assigned roc_auc itself.
C8_RocAucAssignedEachIteration ==
    /\ frame # "raised"
    /\ (frame = "eval_step" /\ i > 0) => roc_fresh

\* C9: when an eval_step call on n rows (n >= k) ends, it has printed n
\* metrics records and called display_recommendation_output once.
C9_OneRecordPerRow ==
    (frame = "raised" \/ (frame = "eval_step" /\ i = Len(batch))) =>
        /\ Len(stdout) = Len(batch)
        /\ Len(display_calls) = 1

\* C10: at every metrics computation each row of user_item_ratings has been
\* assigned by the loop, the matrix has max(user id) + 1 rows, and the rows
\* written are rows of the matrix.
C10_RowsReadWereAssigned ==
    MetricsComputed =>
        /\ DOMAIN user_item_ratings = 0..Max(Range(BatchUsers(batch)))
        /\ assigned_rows \subseteq DOMAIN user_item_ratings
        /\ assigned_rows = DOMAIN user_item_ratings

====
